---- MODULE Spec2Model ----
(***************************************************************************)
(* A model of the two source files of the repository:                      *)
(*   flash/vision/style_transfer/model.py   (the StyleTransfer task)       *)
(*   flash_examples/flash_components/tutorial_1.py  (the data tutorial)    *)
(*                                                                         *)
(* Tensors, encoders, operators and losses are symbolic terms: a record    *)
(* that names the function applied and its arguments.  Two terms are equal *)
(* exactly when they were built by the same calls on the same arguments,   *)
(* so "the loss does not depend on X" is "the loss term does not mention   *)
(* X".  Python's None is the record None; a raised exception is an outcome *)
(* of kind "raise".                                                        *)
(***************************************************************************)
EXTENDS Integers, Sequences, FiniteSets, TLC

VARIABLES
    program,             \* what is being run: the task, the network on its own, or the tutorial
    init_args,           \* the arguments StyleTransfer.__init__ was called with
    st,                  \* the StyleTransfer instance (self)
    outcome,             \* what the last call returned or raised
    calls,               \* the calls the last handler made, in order
    last_call,           \* the last method called on the task, and its batch
    equalInputOutcomes,  \* outcomes of the last training step over every batch with the same input
    fs,                  \* the directories on disk: directory -> os.listdir(directory)
    dataset,             \* the dataset MultipleFoldersImageDataset.from_data returned
    datamodule           \* the data module from_multiple_folders returned

dataVars == <<fs, dataset, datamodule>>

vars == <<program, init_args, st, outcome, calls, last_call, equalInputOutcomes,
          fs, dataset, datamodule>>

(***************************************************************************)
(* Bounds of the model.                                                    *)
(***************************************************************************)
MaxBatchIdx == 1
MaxTarget == 1
MaxFolders == 2
MaxSide == 13

(***************************************************************************)
(* Values.                                                                 *)
(***************************************************************************)
None == [kind |-> "None"]

Tensor(n) == [kind |-> "tensor", name |-> n]

Path(p) == [kind |-> "str", path |-> p]

\* An entry of the log of calls: the function called and, where it matters, its argument.
Call(fn) == [fn |-> fn]

CallOn(fn, arg) == [fn |-> fn, arg |-> arg]

\* DefaultDataKeys: the keys of a sample or batch dictionary.
INPUT == "input"
TARGET == "target"
METADATA == "metadata"

InputImages == {Tensor("x1"), Tensor("x2")}
Targets == 0..MaxTarget
BatchIdxs == 0..MaxBatchIdx

\* Batches: dictionaries over DefaultDataKeys; one family has no INPUT entry.
Batches ==
    {[input |-> x] : x \in InputImages}
    \cup {[input |-> x, target |-> t] : x \in InputImages, t \in Targets}
    \cup {[input |-> x, target |-> t, metadata |-> "meta"] : x \in InputImages, t \in Targets}
    \cup {[target |-> t] : t \in Targets}

(***************************************************************************)
(* model.py: StyleTransfer.__init__ and its helpers.                       *)
(***************************************************************************)
\* pystiche.image.read_image: the tensor stored in the file at `path`.
read_image(path) == [kind |-> "tensor", file |-> path.path]

\* Transformer(): a new instance of the default network.
Transformer == [kind |-> "Transformer"]

default_multi_layer_encoder == [kind |-> "vgg16_multi_layer_encoder"]

default_content_loss(multi_layer_encoder) ==
    LET mle == IF multi_layer_encoder = None THEN default_multi_layer_encoder
               ELSE multi_layer_encoder
        content_layer == "relu2_2"
        content_encoder == [kind |-> "extract_encoder", of |-> mle, layer |-> content_layer]
        content_weight == "1e5"
    IN [kind |-> "FeatureReconstructionOperator", encoder |-> content_encoder,
        score_weight |-> content_weight]

default_style_loss(multi_layer_encoder) ==
    LET mle == IF multi_layer_encoder = None THEN default_multi_layer_encoder
               ELSE multi_layer_encoder
        style_layers == <<"relu1_2", "relu2_2", "relu3_3", "relu4_3">>
        style_weight == "1e10"
    IN [kind |-> "MultiLayerEncodingOperator", encoder |-> mle, layers |-> style_layers,
        get_encoding_op |-> "GramOperator / num_channels", layer_weights |-> "sum",
        score_weight |-> style_weight]

\* loss.PerceptualLoss(content_loss, style_loss): no image is set yet.
PerceptualLoss(content_loss, style_loss) ==
    [content_loss |-> content_loss, style_loss |-> style_loss,
     content_image |-> None, style_image |-> None, n_set_style |-> 0]

set_style_image(pl, image) ==
    [pl EXCEPT !.style_image = image, !.n_set_style = @ + 1]

set_content_image(pl, image) == [pl EXCEPT !.content_image = image]

\* A slip in the keyword arguments: the two kwargs dictionaries change places.
SuperInitKwargs_swapped(model, perceptual_loss, a) ==
    [model |-> model,
     loss_fn |-> [kind |-> "PerceptualLoss", content_loss |-> perceptual_loss.content_loss,
                  style_loss |-> perceptual_loss.style_loss],
     optimizer |-> a.optimizer,
     optimizer_kwargs |-> a.scheduler_kwargs,
     scheduler |-> a.scheduler,
     scheduler_kwargs |-> a.optimizer_kwargs,
     learning_rate |-> a.learning_rate,
     serializer |-> a.serializer]

\* The keyword arguments of the call super().__init__(...).  loss_fn is the
\* PerceptualLoss object itself: the task keeps a reference to it, "perceptual_loss".
SuperInitKwargs(model, perceptual_loss, a) ==
    [model |-> model,
     loss_fn |-> [kind |-> "PerceptualLoss", content_loss |-> perceptual_loss.content_loss,
                  style_loss |-> perceptual_loss.style_loss],
     optimizer |-> a.optimizer,
     optimizer_kwargs |-> a.optimizer_kwargs,
     scheduler |-> a.scheduler,
     scheduler_kwargs |-> a.scheduler_kwargs,
     learning_rate |-> a.learning_rate,
     serializer |-> a.serializer]

\* self.save_hyperparameters(ignore="style_image"): every argument but style_image.
save_hyperparameters(a) ==
    [k \in (DOMAIN a) \ {"style_image"} |-> a[k]]

\* StyleTransfer.__init__(**a): the instance it leaves and the calls it made.
StyleTransfer_init(a) ==
    LET hparams == save_hyperparameters(a)
        style_image == IF a.style_image.kind = "str" THEN read_image(a.style_image)
                       ELSE a.style_image
        model == IF a.model = None THEN Transformer ELSE a.model
        multi_layer_encoder == IF a.multi_layer_encoder = None
                               THEN default_multi_layer_encoder
                               ELSE a.multi_layer_encoder
        content_loss == IF a.content_loss = None
                        THEN default_content_loss(multi_layer_encoder)
                        ELSE a.content_loss
        style_loss == IF a.style_loss = None
                      THEN default_style_loss(multi_layer_encoder)
                      ELSE a.style_loss
        perceptual_loss == PerceptualLoss(content_loss, style_loss)
        task == SuperInitKwargs(model, perceptual_loss, a)
    IN [self |-> [constructed |-> TRUE,
                  hparams |-> hparams,
                  task |-> task,
                  perceptual_loss |-> set_style_image(perceptual_loss, style_image)],
        calls |-> <<Call("save_hyperparameters")>>
                  \o (IF a.style_image.kind = "str" THEN <<Call("read_image")>> ELSE <<>>)
                  \o (IF a.model = None THEN <<Call("Transformer")>> ELSE <<>>)
                  \o (IF a.multi_layer_encoder = None
                      THEN <<Call("default_multi_layer_encoder")>> ELSE <<>>)
                  \o (IF a.content_loss = None THEN <<Call("default_content_loss")>> ELSE <<>>)
                  \o (IF a.style_loss = None THEN <<Call("default_style_loss")>> ELSE <<>>)
                  \o <<Call("PerceptualLoss"), Call("Task.__init__"),
                        CallOn("set_style_image", style_image)>>]

(***************************************************************************)
(* model.py: the steps.  Each returns the instance it leaves (self), what  *)
(* it returned or raised (out) and the calls it made (calls).              *)
(***************************************************************************)
Return(value) == [kind |-> "return", value |-> value]

Raise(exc) == [kind |-> "raise", exc |-> exc]

\* _utils.raise_not_supported(phase): always raises.
raise_not_supported(phase) ==
    [kind |-> "raise", exc |-> "not supported", phase |-> phase]

\* Task.forward, reached by self(batch): the model applied to the input.
forward(self, x) == [kind |-> "tensor", fn |-> self.task.model, arg |-> x]

\* self.perceptual_loss(output_image): the content and the style score of the
\* output against the images set on the loss.
perceptual_loss_call(pl, output_image) ==
    [content_loss |-> [op |-> pl.content_loss, input |-> output_image,
                       target |-> pl.content_image],
     style_loss |-> [op |-> pl.style_loss, input |-> output_image,
                     target |-> pl.style_image]]

\* LossDict.total(): the sum of the entries.
total(loss_dict) ==
    [kind |-> "sum", content |-> loss_dict.content_loss, style |-> loss_dict.style_loss]

\* A slip in step: the loss is evaluated before the content image is set.
step_loss_before_content(self, batch, batch_idx) ==
    LET input_image == batch
        output_image == forward(self, batch)
        loss == total(perceptual_loss_call(self.perceptual_loss, output_image))
        pl == set_content_image(self.perceptual_loss, input_image)
        logs == [perceptual_loss |-> loss]
    IN [self |-> [self EXCEPT !.perceptual_loss = pl],
        out |-> Return([loss |-> loss, logs |-> logs]),
        calls |-> <<CallOn("forward", batch),
                    CallOn("perceptual_loss", output_image),
                    Call("total"),
                    CallOn("set_content_image", input_image)>>]

\* A slip in step: the batch is set as the style image, not as the content image.
step_sets_style(self, batch, batch_idx) ==
    LET input_image == batch
        pl == set_style_image(self.perceptual_loss, input_image)
        output_image == forward(self, batch)
        loss == total(perceptual_loss_call(pl, output_image))
        logs == [perceptual_loss |-> loss]
    IN [self |-> [self EXCEPT !.perceptual_loss = pl],
        out |-> Return([loss |-> loss, logs |-> logs]),
        calls |-> <<CallOn("set_style_image", input_image),
                    CallOn("forward", batch),
                    CallOn("perceptual_loss", output_image),
                    Call("total")>>]

step(self, batch, batch_idx) ==
    LET input_image == batch
        pl == set_content_image(self.perceptual_loss, input_image)
        output_image == forward(self, batch)
        loss == total(perceptual_loss_call(pl, output_image))
        logs == [perceptual_loss |-> loss]
    IN [self |-> [self EXCEPT !.perceptual_loss = pl],
        out |-> Return([loss |-> loss, logs |-> logs]),
        calls |-> <<CallOn("set_content_image", input_image),
                    CallOn("forward", batch),
                    CallOn("perceptual_loss", output_image),
                    Call("total")>>]

\* Task.training_step(batch, batch_idx): runs self.step and hands back its output.
Task_training_step(self, batch, batch_idx) == step(self, batch, batch_idx)

\* A slip in training_step: the whole batch dictionary is handed on.
training_step_whole_batch(self, batch, batch_idx) ==
    Task_training_step(self, batch, batch_idx)

training_step(self, batch, batch_idx) ==
    IF INPUT \in DOMAIN batch
    THEN Task_training_step(self, batch[INPUT], batch_idx)
    ELSE [self |-> self, out |-> Raise("KeyError"), calls |-> <<>>]

\* A slip in validation_step: the body does nothing and returns None.
validation_step_returns(self, batch, batch_idx) ==
    [self |-> self, out |-> Return(None), calls |-> <<>>]

validation_step(self, batch, batch_idx) ==
    [self |-> self, out |-> raise_not_supported("validation"),
     calls |-> <<CallOn("raise_not_supported", "validation")>>]

test_step(self, batch, batch_idx) ==
    [self |-> self, out |-> raise_not_supported("test"),
     calls |-> <<CallOn("raise_not_supported", "test")>>]

(***************************************************************************)
(* The arguments a caller may construct the task with.                     *)
(***************************************************************************)
StyleImages == {Path("style.jpg"), Tensor("s1"), Tensor("s2")}

Opt(kind, name) == {None, [kind |-> kind, name |-> name]}

\* The defaults of the signature of __init__.
DefaultOptimizer == [kind |-> "class", name |-> "torch.optim.Adam"]

DefaultLearningRate == "1e-3"

\* The call StyleTransfer(style_image) with every other argument at its default.
DefaultArgs(style_image) ==
    [style_image |-> style_image, model |-> None, multi_layer_encoder |-> None,
     content_loss |-> None, style_loss |-> None, optimizer |-> DefaultOptimizer,
     optimizer_kwargs |-> None, scheduler |-> None, scheduler_kwargs |-> None,
     learning_rate |-> DefaultLearningRate, serializer |-> None]

\* The calls the model draws from: every style image with the defaults; the model,
\* the encoder and the two loss operators given or not, in every combination; and
\* the arguments of the optimizer, of the scheduler and of the rest, pair by pair.
InitArgs ==
    {DefaultArgs(s) : s \in StyleImages}
    \cup
    {[DefaultArgs(Tensor("s1")) EXCEPT !.model = m, !.multi_layer_encoder = e,
                                       !.content_loss = c, !.style_loss = y] :
        m \in Opt("Module", "custom_model"),
        e \in Opt("MultiLayerEncoder", "custom_encoder"),
        c \in Opt("ComparisonOperator", "custom_content_loss"),
        y \in Opt("ComparisonOperator", "custom_style_loss")}
    \cup
    {[DefaultArgs(Tensor("s2")) EXCEPT !.optimizer = o, !.optimizer_kwargs = ok] :
        o \in {DefaultOptimizer, [kind |-> "instance", name |-> "SGD"]},
        ok \in Opt("dict", "weight_decay")}
    \cup
    {[DefaultArgs(Tensor("s2")) EXCEPT !.scheduler = sc, !.scheduler_kwargs = sk] :
        sc \in Opt("class", "StepLR"),
        sk \in Opt("dict", "step_size")}
    \cup
    {[DefaultArgs(Path("style.jpg")) EXCEPT !.learning_rate = lr, !.serializer = se] :
        lr \in {DefaultLearningRate, "1e-2"},
        se \in Opt("Serializer", "custom_serializer")}

\* The batches that differ from `batch` at most outside the INPUT entry.
SameInput(batch) ==
    {b \in Batches :
        /\ (INPUT \in DOMAIN b) = (INPUT \in DOMAIN batch)
        /\ (INPUT \in DOMAIN b) => b[INPUT] = batch[INPUT]}

(***************************************************************************)
(* tutorial_1.py: the file system and the constants of the script.  A path *)
(* is the sequence of its components; os.path.join appends a component.    *)
(***************************************************************************)
join(folder, p) == Append(folder, p)

FOLDER_PATH == <<".", "data", "hymenoptera_data", "train">>

Ants == join(FOLDER_PATH, "ants")

Bees == join(FOLDER_PATH, "bees")

\* A path that exists and is no directory.
NotADirectory == join(FOLDER_PATH, "README.md")

Folders == {Ants, Bees}

\* What os.listdir may return for a directory: the names in any order.
Listings == {<<>>, <<"1.jpg">>, <<"2.jpg", "1.jpg">>}

FileSystems == [Folders -> Listings]

isdir(path) == path \in DOMAIN fs

listdir(folder) == fs[folder]

\* RunningStage
TRAINING == "train"
VALIDATING == "validate"
TESTING == "test"
PREDICTING == "predict"

RunningStages == {TRAINING, VALIDATING, TESTING, PREDICTING}

\* CustomDataTransform
BASE == "base"
RANDOM_ROTATION == "random_rotation"

\* CustomDataFormat
MULTIPLE_FOLDERS == "multiple_folders"

\* PreTransformPlacement
PER_SAMPLE_TRANSFORM == "per_sample_transform"
COLLATE == "collate"

\* Properties.training of a dataset or a transform: it is in the training stage.
training(self) == self.running_stage = TRAINING

\* self.<name> = value
setattr(self, name, value) ==
    [k \in DOMAIN self \cup {name} |-> IF k = name THEN value ELSE self[k]]

(***************************************************************************)
(* tutorial_1.py: MultipleFoldersImageDataset.                             *)
(***************************************************************************)
\* The samples of the folders from position class_idx (counted from 0) on.
RECURSIVE load_data_samples(_, _)
load_data_samples(folders, class_idx) ==
    IF class_idx >= Len(folders) THEN <<>>
    ELSE LET folder == folders[class_idx + 1]
             names == listdir(folder)
         IN [j \in 1..Len(names) |->
                [input |-> join(folder, names[j]), target |-> class_idx]]
            \o load_data_samples(folders, class_idx + 1)

\* A slip in load_data: the class indices are counted from 1.
RECURSIVE load_data_samples_from_one(_, _)
load_data_samples_from_one(folders, class_idx) ==
    IF class_idx >= Len(folders) THEN <<>>
    ELSE LET folder == folders[class_idx + 1]
             names == listdir(folder)
         IN [j \in 1..Len(names) |->
                [input |-> join(folder, names[j]), target |-> class_idx + 1]]
            \o load_data_samples_from_one(folders, class_idx + 1)

load_data_from_one(self, folders) ==
    [self |-> IF training(self) THEN setattr(self, "num_classes", Len(folders)) ELSE self,
     out |-> Return(load_data_samples_from_one(folders, 0))]

\* A slip in load_data: num_classes is set in every stage.
load_data_always_sets(self, folders) ==
    [self |-> setattr(self, "num_classes", Len(folders)),
     out |-> Return(load_data_samples(folders, 0))]

load_data(self, folders) ==
    [self |-> IF training(self) THEN setattr(self, "num_classes", Len(folders)) ELSE self,
     out |-> Return(load_data_samples(folders, 0))]

\* A slip in predict_load_data: the samples carry a target.
predict_load_data_with_target(self, predict_folder) ==
    IF ~isdir(predict_folder)
    THEN [self |-> self, out |-> Raise("AssertionError")]
    ELSE [self |-> self,
          out |-> Return([j \in 1..Len(listdir(predict_folder)) |->
                            [input |-> join(predict_folder, listdir(predict_folder)[j]),
                             target |-> 0]])]

predict_load_data(self, predict_folder) ==
    IF ~isdir(predict_folder)
    THEN [self |-> self, out |-> Raise("AssertionError")]
    ELSE [self |-> self,
          out |-> Return([j \in 1..Len(listdir(predict_folder)) |->
                            [input |-> join(predict_folder, listdir(predict_folder)[j])]])]

(***************************************************************************)
(* tutorial_1.py: the two transforms and their registration.               *)
(***************************************************************************)
Resize(image_size) == [kind |-> "Resize", size |-> <<image_size, image_size>>]

ToTensor == [kind |-> "ToTensor"]

RandomRotation(rotation) == [kind |-> "RandomRotation", degrees |-> rotation]

Compose(transforms) == [kind |-> "Compose", transforms |-> transforms]

ApplyToKeys(keys, transform) == [kind |-> "ApplyToKeys", keys |-> keys, transform |-> transform]

default_collate == [kind |-> "default_collate"]

\* A keyword argument, or the default of the signature.
kwarg(kwargs, name, default) == IF name \in DOMAIN kwargs THEN kwargs[name] ELSE default

ImageBaseTransform_configure_transforms(self, kwargs) ==
    LET image_size == kwarg(kwargs, "image_size", 224)
    IN [k \in {PER_SAMPLE_TRANSFORM, COLLATE} |->
          IF k = PER_SAMPLE_TRANSFORM
          THEN ApplyToKeys(INPUT, Compose(<<Resize(image_size), ToTensor>>))
          ELSE default_collate]

\* A slip in the stage test: the rotation is added outside training.
ImageRandomRotationTransform_not_training(self, kwargs) ==
    LET image_size == kwarg(kwargs, "image_size", 224)
        rotation == kwarg(kwargs, "rotation", 0)
        transforms == <<Resize(image_size), ToTensor>>
                      \o (IF ~training(self) THEN <<RandomRotation(rotation)>> ELSE <<>>)
    IN [k \in {PER_SAMPLE_TRANSFORM, COLLATE} |->
          IF k = PER_SAMPLE_TRANSFORM
          THEN ApplyToKeys(INPUT, Compose(transforms))
          ELSE default_collate]

ImageRandomRotationTransform_configure_transforms(self, kwargs) ==
    LET image_size == kwarg(kwargs, "image_size", 224)
        rotation == kwarg(kwargs, "rotation", 0)
        transforms == <<Resize(image_size), ToTensor>>
                      \o (IF training(self) THEN <<RandomRotation(rotation)>> ELSE <<>>)
    IN [k \in {PER_SAMPLE_TRANSFORM, COLLATE} |->
          IF k = PER_SAMPLE_TRANSFORM
          THEN ApplyToKeys(INPUT, Compose(transforms))
          ELSE default_collate]

\* MultipleFoldersImageDataset.transform_registry after the two register_transform calls.
transform_registry(key) ==
    IF key = BASE THEN "ImageBaseTransform" ELSE "ImageRandomRotationTransform"

\* The transform a dataset is given: the registered class for the key, in the
\* stage of the dataset, configured with the keyword arguments.
resolve_transform(transform, running_stage) ==
    IF transform = None THEN None
    ELSE LET cls == transform_registry(transform.key)
             self == [running_stage |-> running_stage]
         IN [kind |-> cls,
             running_stage |-> running_stage,
             transform |-> IF cls = "ImageBaseTransform"
                           THEN ImageBaseTransform_configure_transforms(self, transform.kwargs)
                           ELSE ImageRandomRotationTransform_configure_transforms(
                                    self, transform.kwargs)]

(***************************************************************************)
(* FlashDataset.from_data: the dataset of a stage, loaded by the hook of   *)
(* that stage.                                                             *)
(***************************************************************************)
\* The hooks MultipleFoldersImageDataset implements: <<stage prefix, hook>>.
ImplementedHooks == {<<"", "load_data">>, <<"", "load_sample">>, <<"predict", "load_data">>}

StagePrefix(running_stage) ==
    CASE running_stage = TRAINING -> "train"
      [] running_stage = VALIDATING -> "val"
      [] running_stage = TESTING -> "test"
      [] running_stage = PREDICTING -> "predict"

\* {stage}_load_data if it is implemented, load_data otherwise.
resolve_load_data(running_stage) ==
    IF <<StagePrefix(running_stage), "load_data">> \in ImplementedHooks
    THEN <<StagePrefix(running_stage), "load_data">>
    ELSE <<"", "load_data">>

from_data(data, running_stage, transform) ==
    LET self == [running_stage |-> running_stage,
                 transform |-> resolve_transform(transform, running_stage)]
        hook == resolve_load_data(running_stage)
        r == IF hook = <<"predict", "load_data">> THEN predict_load_data(self, data)
             ELSE load_data(self, data)
    IN IF r.out.kind = "raise" THEN [out |-> r.out, hook |-> hook]
       ELSE [out |-> Return(setattr(r.self, "data", r.out.value)), hook |-> hook]

(***************************************************************************)
(* tutorial_1.py: ImageClassificationDataModule.                           *)
(***************************************************************************)
\* DataModule.create_flash_datasets: one dataset per stage whose data is given, of
\* the class registered for the format (MultipleFoldersImageDataset).
create_flash_datasets(enum, train_data, val_data, test_data, predict_data, train_transform, val_transform, test_transform, predict_transform) ==
    LET make(data, running_stage, transform) ==
            IF data = None THEN Return(None)
            ELSE from_data(data.value, running_stage, transform).out
    IN <<make(train_data, TRAINING, train_transform),
         make(val_data, VALIDATING, val_transform),
         make(test_data, TESTING, test_transform),
         make(predict_data, PREDICTING, predict_transform)>>

\* DataModule(train_dataset, val_dataset, test_dataset, predict_dataset)
DataModule(train_dataset, val_dataset, test_dataset, predict_dataset) ==
    [train_dataset |-> train_dataset, val_dataset |-> val_dataset,
     test_dataset |-> test_dataset, predict_dataset |-> predict_dataset]

\* A slip in from_multiple_folders: validation and test folders change places.
from_multiple_folders_swapped(a) ==
    LET datasets == create_flash_datasets(
                        MULTIPLE_FOLDERS,
                        a.train_folders, a.test_folders, a.val_folders, a.predict_folder,
                        a.train_transform, a.val_transform, a.test_transform,
                        a.predict_transform)
    IN IF \E i \in 1..4 : datasets[i].kind = "raise"
       THEN datasets[CHOOSE i \in 1..4 : datasets[i].kind = "raise"]
       ELSE Return(DataModule(datasets[1].value, datasets[2].value, datasets[3].value,
                              datasets[4].value))

from_multiple_folders(a) ==
    LET datasets == create_flash_datasets(
                        MULTIPLE_FOLDERS,
                        a.train_folders, a.val_folders, a.test_folders, a.predict_folder,
                        a.train_transform, a.val_transform, a.test_transform,
                        a.predict_transform)
    IN IF \E i \in 1..4 : datasets[i].kind = "raise"
       THEN datasets[CHOOSE i \in 1..4 : datasets[i].kind = "raise"]
       ELSE Return(DataModule(datasets[1].value, datasets[2].value, datasets[3].value,
                              datasets[4].value))

(***************************************************************************)
(* The arguments the tutorial's calls are drawn from.                      *)
(***************************************************************************)
\* Lists of one to `n` folders.
FolderLists(n) == UNION {[1..k -> Folders] : k \in 1..n}

\* A given optional argument; None is the argument left out.
Given(v) == [kind |-> "given", value |-> v]

NoKwargs == [k \in {} |-> 0]

\* transform=...: left out, a registered key, or a key with keyword arguments.
TransformArgs ==
    {None,
     [key |-> BASE, kwargs |-> NoKwargs],
     [key |-> BASE, kwargs |-> [image_size |-> 128]],
     [key |-> RANDOM_ROTATION, kwargs |-> NoKwargs],
     [key |-> RANDOM_ROTATION, kwargs |-> [rotation |-> 45]]}

\* The calls of from_data: load_data takes a list of folders (the empty list
\* included), predict_load_data one path.
FromDataArgs ==
    {[data |-> d, running_stage |-> g, transform |-> t] :
        d \in FolderLists(MaxFolders) \cup {<<>>},
        g \in RunningStages \ {PREDICTING},
        t \in TransformArgs}
    \cup
    {[data |-> d, running_stage |-> PREDICTING, transform |-> t] :
        d \in Folders \cup {NotADirectory},
        t \in TransformArgs}

OptionalFolderLists == {None} \cup {Given(l) : l \in FolderLists(MaxFolders)}

\* TRAIN_FOLDERS, VAL_FOLDERS and PREDICT_FOLDER of the script.
TRAIN_FOLDERS == <<Ants, Bees>>
VAL_FOLDERS == <<Ants, Bees>>
PREDICT_FOLDER == Ants

\* The calls of from_multiple_folders: the folders of the four stages given or
\* not, without transforms; and the script's folders with every choice of the
\* four transforms.
FromMultipleFoldersArgs ==
    {[train_folders |-> tr, val_folders |-> va, test_folders |-> te, predict_folder |-> pr,
      train_transform |-> None, val_transform |-> None, test_transform |-> None,
      predict_transform |-> None] :
        tr \in OptionalFolderLists, va \in OptionalFolderLists, te \in OptionalFolderLists,
        pr \in {None, Given(Ants), Given(Bees), Given(NotADirectory)}}
    \cup
    {[train_folders |-> Given(TRAIN_FOLDERS), val_folders |-> Given(VAL_FOLDERS),
      test_folders |-> te, predict_folder |-> Given(PREDICT_FOLDER),
      train_transform |-> t1, val_transform |-> t2, test_transform |-> t3,
      predict_transform |-> t4] :
        te \in {None, Given(<<Bees>>)},
        t1 \in TransformArgs \ {[key |-> BASE, kwargs |-> NoKwargs]},
        t2 \in TransformArgs \ {[key |-> BASE, kwargs |-> NoKwargs]},
        t3 \in {None, [key |-> RANDOM_ROTATION, kwargs |-> NoKwargs]},
        t4 \in {None, [key |-> BASE, kwargs |-> NoKwargs],
                [key |-> RANDOM_ROTATION, kwargs |-> [rotation |-> 45]]}}

(***************************************************************************)
(* model.py: the Transformer network, on the shape of its input.  A tensor *)
(* is known by its channels and its two sides; the batch size passes       *)
(* through every layer.  A layer that rejects its input raises.            *)
(***************************************************************************)
Shape(c, h, w) == [kind |-> "shape", c |-> c, h |-> h, w |-> w]

\* Interpolate.forward: nearest-neighbour scaling of both sides.
Interpolate_forward(scale_factor, input) ==
    Shape(input.c, input.h * scale_factor, input.w * scale_factor)

\* nn.ReflectionPad2d(padding): the padding must be smaller than each side.
ReflectionPad2d(padding, input) ==
    IF padding >= input.h \/ padding >= input.w
    THEN Raise("RuntimeError")
    ELSE Shape(input.c, input.h + 2 * padding, input.w + 2 * padding)

\* nn.Conv2d(in_channels, out_channels, kernel_size, stride=stride), no padding.
Conv2d(in_channels, out_channels, kernel_size, stride, input) ==
    IF input.c # in_channels \/ input.h < kernel_size \/ input.w < kernel_size
    THEN Raise("RuntimeError")
    ELSE Shape(out_channels,
               (input.h - kernel_size) \div stride + 1,
               (input.w - kernel_size) \div stride + 1)

\* Conv.__init__
Conv(in_channels, out_channels, kernel_size, stride, upsample, norm, activation) ==
    [kind |-> "Conv",
     upsample |-> IF upsample THEN [scale_factor |-> stride] ELSE None,
     pad |-> [padding |-> kernel_size \div 2],
     conv |-> [in_channels |-> in_channels, out_channels |-> out_channels,
               kernel_size |-> kernel_size, stride |-> IF upsample THEN 1 ELSE stride],
     norm |-> norm,
     activation |-> activation]

\* A slip in Conv: the convolution keeps the stride although the input is upsampled.
Conv_forward_strided_upsample(self, input) ==
    LET upsampled == IF self.upsample # None
                     THEN Interpolate_forward(self.upsample.scale_factor, input)
                     ELSE input
        padded == ReflectionPad2d(self.pad.padding, upsampled)
        stride == IF self.upsample # None THEN self.upsample.scale_factor
                  ELSE self.conv.stride
    IN IF padded.kind = "raise" THEN padded
       ELSE Conv2d(self.conv.in_channels, self.conv.out_channels, self.conv.kernel_size,
                   stride, padded)

\* Conv.forward: InstanceNorm2d and ReLU keep the shape.
Conv_forward(self, input) ==
    LET upsampled == IF self.upsample # None
                     THEN Interpolate_forward(self.upsample.scale_factor, input)
                     ELSE input
        padded == ReflectionPad2d(self.pad.padding, upsampled)
    IN IF padded.kind = "raise" THEN padded
       ELSE Conv2d(self.conv.in_channels, self.conv.out_channels, self.conv.kernel_size,
                   self.conv.stride, padded)

\* Residual.__init__
Residual(channels) ==
    [kind |-> "Residual",
     conv1 |-> Conv(channels, channels, 3, 1, FALSE, TRUE, TRUE),
     conv2 |-> Conv(channels, channels, 3, 1, FALSE, TRUE, FALSE)]

\* output + input: equal sizes, or a size of 1 that is broadcast.
Broadcast(a, b) ==
    IF a = b \/ b = 1 THEN a ELSE IF a = 1 THEN b ELSE 0

add(output, input) ==
    IF \/ Broadcast(output.c, input.c) = 0
       \/ Broadcast(output.h, input.h) = 0
       \/ Broadcast(output.w, input.w) = 0
    THEN Raise("RuntimeError")
    ELSE Shape(Broadcast(output.c, input.c), Broadcast(output.h, input.h),
               Broadcast(output.w, input.w))

\* Residual.forward
Residual_forward(self, input) ==
    LET hidden == Conv_forward(self.conv1, input)
        output == IF hidden.kind = "raise" THEN hidden
                  ELSE Conv_forward(self.conv2, hidden)
    IN IF output.kind = "raise" THEN output ELSE add(output, input)

\* Transformer.__init__: self.encoder and self.decoder.
encoder ==
    <<Conv(3, 32, 9, 1, FALSE, TRUE, TRUE),
      Conv(32, 64, 3, 2, FALSE, TRUE, TRUE),
      Conv(64, 128, 3, 2, FALSE, TRUE, TRUE),
      Residual(128),
      Residual(128),
      Residual(128),
      Residual(128),
      Residual(128)>>

decoder ==
    <<Conv(128, 64, 3, 2, TRUE, TRUE, TRUE),
      Conv(64, 32, 3, 2, TRUE, TRUE, TRUE),
      Conv(32, 3, 9, 1, FALSE, FALSE, FALSE)>>

Module_forward(module, input) ==
    IF module.kind = "Conv" THEN Conv_forward(module, input)
    ELSE Residual_forward(module, input)

\* nn.Sequential.forward: what each module in turn puts out, up to the first
\* that raises.
RECURSIVE Sequential_forward(_, _)
Sequential_forward(modules, input) ==
    IF modules = <<>> THEN <<>>
    ELSE LET output == Module_forward(Head(modules), input)
         IN IF output.kind = "raise" THEN <<output>>
            ELSE <<output>> \o Sequential_forward(Tail(modules), output)

\* Transformer.forward: the pre- and the postprocessor scale the values and keep
\* the shape.  The outputs of the modules of the encoder and then of the decoder.
Transformer_forward(input) == Sequential_forward(encoder \o decoder, input)

\* The inputs: one or three channels, sides up to MaxSide.
InputShapes == {Shape(c, h, w) : c \in {1, 3}, h \in 1..MaxSide, w \in 1..MaxSide}

(***************************************************************************)
(* The state machine.                                                      *)
(***************************************************************************)
NoOutcome == [kind |-> "none"]

Init ==
    /\ program \in {"model.py", "model.py:Transformer", "tutorial_1.py"}
    /\ init_args = None
    /\ st = [constructed |-> FALSE]
    /\ outcome = NoOutcome
    /\ calls = <<>>
    /\ last_call = [op |-> "none"]
    /\ equalInputOutcomes = {}
    /\ fs \in IF program = "tutorial_1.py" THEN FileSystems ELSE {<<>>}
    /\ dataset = None
    /\ datamodule = None

Construct ==
    /\ program = "model.py"
    /\ ~st.constructed
    /\ \E a \in InitArgs :
         LET r == StyleTransfer_init(a)
         IN /\ init_args' = a
            /\ st' = r.self
            /\ outcome' = Return(None)
            /\ calls' = r.calls
    /\ last_call' = [op |-> "__init__"]
    /\ UNCHANGED <<program, equalInputOutcomes, dataVars>>

TrainingStep ==
    /\ program = "model.py"
    /\ st.constructed
    /\ \E batch \in Batches, batch_idx \in BatchIdxs :
         LET r == training_step(st, batch, batch_idx)
         IN /\ last_call' = [op |-> "training_step", batch |-> batch]
            /\ st' = r.self
            /\ outcome' = r.out
            /\ calls' = r.calls
            /\ equalInputOutcomes' =
                 {[self |-> training_step(st, b, batch_idx).self,
                   out |-> training_step(st, b, batch_idx).out] : b \in SameInput(batch)}
    /\ UNCHANGED <<program, init_args, dataVars>>

ValidationStep ==
    /\ program = "model.py"
    /\ st.constructed
    /\ \E batch \in Batches, batch_idx \in BatchIdxs :
         LET r == validation_step(st, batch, batch_idx)
         IN /\ last_call' = [op |-> "validation_step", batch |-> batch]
            /\ st' = r.self
            /\ outcome' = r.out
            /\ calls' = r.calls
    /\ UNCHANGED <<program, init_args, equalInputOutcomes, dataVars>>

TestStep ==
    /\ program = "model.py"
    /\ st.constructed
    /\ \E batch \in Batches, batch_idx \in BatchIdxs :
         LET r == test_step(st, batch, batch_idx)
         IN /\ last_call' = [op |-> "test_step", batch |-> batch]
            /\ st' = r.self
            /\ outcome' = r.out
            /\ calls' = r.calls
    /\ UNCHANGED <<program, init_args, equalInputOutcomes, dataVars>>

\* One call of MultipleFoldersImageDataset.from_data(data, running_stage=, transform=).
FromData ==
    /\ program = "tutorial_1.py"
    /\ last_call.op = "none"
    /\ \E a \in FromDataArgs :
         LET r == from_data(a.data, a.running_stage, a.transform)
         IN /\ last_call' = [op |-> "from_data", args |-> a]
            /\ outcome' = r.out
            /\ calls' = <<r.hook>>
            /\ dataset' = IF r.out.kind = "return" THEN r.out.value ELSE None
    /\ UNCHANGED <<program, init_args, st, equalInputOutcomes, fs, datamodule>>

\* One call of ImageClassificationDataModule.from_multiple_folders(...).
FromMultipleFolders ==
    /\ program = "tutorial_1.py"
    /\ last_call.op = "none"
    /\ \E a \in FromMultipleFoldersArgs :
         LET r == from_multiple_folders(a)
         IN /\ last_call' = [op |-> "from_multiple_folders", args |-> a]
            /\ outcome' = r
            /\ calls' = <<>>
            /\ datamodule' = IF r.kind = "return" THEN r.value ELSE None
    /\ UNCHANGED <<program, init_args, st, equalInputOutcomes, fs, dataset>>

\* Transformer()(input): one forward pass of a new network.
TransformerForward ==
    /\ program = "model.py:Transformer"
    /\ last_call.op = "none"
    /\ \E input \in InputShapes :
         LET outputs == Transformer_forward(input)
             output == outputs[Len(outputs)]
         IN /\ last_call' = [op |-> "Transformer.forward", input |-> input]
            /\ outcome' = IF output.kind = "raise" THEN output ELSE Return(output)
            /\ calls' = outputs
    /\ UNCHANGED <<program, init_args, st, equalInputOutcomes, dataVars>>

Next ==
    \/ Construct
    \/ TrainingStep
    \/ ValidationStep
    \/ TestStep
    \/ FromData
    \/ FromMultipleFolders
    \/ TransformerForward

Spec == Init /\ [][Next]_vars

(***************************************************************************)
(* Properties of the StyleTransfer task.                                   *)
(***************************************************************************)
NotSupported(phase) ==
    /\ outcome.kind = "raise"
    /\ outcome.exc = "not supported"
    /\ outcome.phase = phase

\* C1: whatever the batch and the batch index, and whatever steps ran before, a
\* call of validation_step or of test_step raises the "not supported" signal of
\* its phase; neither returns a value.
C1_ValidationAndTestRaise ==
    /\ last_call.op = "validation_step" => NotSupported("validation")
    /\ last_call.op = "test_step" => NotSupported("test")

\* C1 witness: a validation or test step called after a training step has run.
C1_Witness ==
    /\ last_call.op \in {"validation_step", "test_step"}
    /\ st.perceptual_loss.content_image # None
    /\ outcome.kind = "raise"

\* C2: the outcome of a training step (the loss it returns and the task it
\* leaves) is the same for every batch that has the same INPUT entry, whatever
\* the TARGET entry and the other keys are.
C2_LossIgnoresTarget ==
    last_call.op = "training_step" =>
        equalInputOutcomes = {[self |-> st, out |-> outcome]}

\* C2 witness: a training step on a batch with a target has returned a loss, and
\* a batch with the same input and another target exists.
C2_Witness ==
    /\ last_call.op = "training_step"
    /\ outcome.kind = "return"
    /\ TARGET \in DOMAIN last_call.batch
    /\ \E b \in SameInput(last_call.batch) :
         TARGET \in DOMAIN b /\ b[TARGET] # last_call.batch[TARGET]

\* The loss of the model's output for input x: content score against x, style
\* score against the style image of the task.
ExpectedLoss(x) ==
    LET output == [kind |-> "tensor", fn |-> st.task.model, arg |-> x]
    IN [kind |-> "sum",
        content |-> [op |-> st.perceptual_loss.content_loss, input |-> output, target |-> x],
        style |-> [op |-> st.perceptual_loss.style_loss, input |-> output,
                   target |-> st.perceptual_loss.style_image]]

\* C5: a training step on a batch with an INPUT entry x sets the content image
\* to x, then runs the forward pass on x, then evaluates the perceptual loss on
\* the output and totals it; it returns {loss, logs} where logs.perceptual_loss
\* is that same loss.
C5_TrainingStepContract ==
    (last_call.op = "training_step" /\ INPUT \in DOMAIN last_call.batch) =>
        LET x == last_call.batch[INPUT]
            output == [kind |-> "tensor", fn |-> st.task.model, arg |-> x]
        IN /\ calls = <<CallOn("set_content_image", x), CallOn("forward", x),
                        CallOn("perceptual_loss", output), Call("total")>>
           /\ outcome.kind = "return"
           /\ DOMAIN outcome.value = {"loss", "logs"}
           /\ outcome.value.loss = ExpectedLoss(x)
           /\ DOMAIN outcome.value.logs = {"perceptual_loss"}
           /\ outcome.value.logs.perceptual_loss = outcome.value.loss

\* C5 witness: a training step on a batch with input x2 and a target has returned,
\* and x2 is the content image of the loss.
C5_Witness ==
    /\ last_call.op = "training_step"
    /\ outcome.kind = "return"
    /\ TARGET \in DOMAIN last_call.batch
    /\ st.perceptual_loss.content_image = Tensor("x2")

\* C6 as stated: every argument of the construction reaches the base class
\* unchanged, under its own name.
C6_AllArgumentsForwarded ==
    st.constructed =>
        \A k \in DOMAIN init_args : k \in DOMAIN st.task /\ st.task[k] = init_args[k]

ForwardedUnchanged ==
    {"optimizer", "optimizer_kwargs", "scheduler", "scheduler_kwargs", "learning_rate",
     "serializer"}

\* C6 amended: optimizer, optimizer_kwargs, scheduler, scheduler_kwargs,
\* learning_rate and serializer reach the base class unchanged.  The model is
\* handed on with None replaced by a new Transformer.  The loss operators are
\* not handed on themselves: each given operator, or its default, goes into one
\* PerceptualLoss that is handed on as loss_fn.  The style image and the encoder
\* are not handed to the base class at all.
C6_ForwardedToTask ==
    st.constructed =>
        /\ DOMAIN st.task = ForwardedUnchanged \cup {"model", "loss_fn"}
        /\ \A k \in ForwardedUnchanged : st.task[k] = init_args[k]
        /\ st.task.model = (IF init_args.model = None THEN [kind |-> "Transformer"]
                            ELSE init_args.model)
        /\ st.task.loss_fn.kind = "PerceptualLoss"
        /\ init_args.content_loss # None =>
               st.task.loss_fn.content_loss = init_args.content_loss
        /\ init_args.content_loss = None =>
               /\ st.task.loss_fn.content_loss.kind = "FeatureReconstructionOperator"
               /\ st.task.loss_fn.content_loss.encoder.of =
                      (IF init_args.multi_layer_encoder = None
                       THEN [kind |-> "vgg16_multi_layer_encoder"]
                       ELSE init_args.multi_layer_encoder)
        /\ init_args.style_loss # None =>
               st.task.loss_fn.style_loss = init_args.style_loss
        /\ init_args.style_loss = None =>
               /\ st.task.loss_fn.style_loss.kind = "MultiLayerEncodingOperator"
               /\ st.task.loss_fn.style_loss.encoder =
                      (IF init_args.multi_layer_encoder = None
                       THEN [kind |-> "vgg16_multi_layer_encoder"]
                       ELSE init_args.multi_layer_encoder)

\* C6 witness: a task constructed with optimizer kwargs and without scheduler
\* kwargs, and another with operators of the caller's on an encoder of the caller's.
C6_Witness ==
    /\ st.constructed
    /\ \/ init_args.optimizer_kwargs # None /\ init_args.scheduler_kwargs = None
       \/ init_args.content_loss # None /\ init_args.multi_layer_encoder # None

\* The style image the construction was given: the file's image for a path.
SuppliedStyleImage ==
    IF init_args.style_image.kind = "str"
    THEN [kind |-> "tensor", file |-> init_args.style_image.path]
    ELSE init_args.style_image

\* C10: the style image is set once, as the last call of the construction and
\* after the base class was initialised; afterwards it is the supplied one in
\* every state.  A training step changes nothing of the task but the content
\* image, which becomes the batch's input; a validation or test step changes
\* nothing of the task.
C10_StyleImageSetOnce ==
    [][/\ st'.constructed =>
            /\ st'.perceptual_loss.style_image = SuppliedStyleImage'
            /\ st'.perceptual_loss.n_set_style = 1
       /\ last_call'.op = "__init__" =>
            /\ calls'[Len(calls')] = CallOn("set_style_image", SuppliedStyleImage')
            /\ calls'[Len(calls') - 1] = Call("Task.__init__")
            /\ \A i \in 1..(Len(calls') - 1) : calls'[i].fn # "set_style_image"
       /\ st.constructed =>
            /\ st' = [st EXCEPT !.perceptual_loss.content_image =
                                    st'.perceptual_loss.content_image]
            /\ last_call'.op \in {"validation_step", "test_step"} => st' = st
            /\ (last_call'.op = "training_step" /\ outcome'.kind = "return") =>
                 st'.perceptual_loss.content_image = last_call'.batch[INPUT]
      ]_vars

\* C10 witness: a test step after a training step, on a task whose style image
\* was read from a file.
C10_Witness ==
    /\ last_call.op = "test_step"
    /\ st.perceptual_loss.content_image # None
    /\ init_args.style_image.kind = "str"
    /\ st.perceptual_loss.style_image = SuppliedStyleImage

(***************************************************************************)
(* Properties of the tutorial's dataset, transforms and data module.       *)
(***************************************************************************)
\* The number of files in the folders before position i of the list.
RECURSIVE FilesBefore(_, _)
FilesBefore(folders, i) ==
    IF i <= 1 THEN 0 ELSE FilesBefore(folders, i - 1) + Len(fs[folders[i - 1]])

\* data is what load_data makes of the folders: folder by folder in the order of
\* the list, file by file in the order of the listing, the file's path as INPUT
\* and the position of the folder, counted from 0, as TARGET.
IsEnumerationOf(data, folders) ==
    /\ Len(data) = FilesBefore(folders, Len(folders) + 1)
    /\ \A i \in 1..Len(folders) :
         \A j \in 1..Len(fs[folders[i]]) :
            data[FilesBefore(folders, i) + j] =
                [input |-> folders[i] \o <<fs[folders[i]][j]>>, target |-> i - 1]

\* data is what predict_load_data makes of the folder: one sample per file, the
\* file's path as INPUT and nothing else.
IsPredictListOf(data, folder) ==
    /\ Len(data) = Len(fs[folder])
    /\ \A j \in 1..Len(data) : data[j] = [input |-> folder \o <<fs[folder][j]>>]

FromDataReturned ==
    last_call.op = "from_data" /\ outcome.kind = "return"

DataModuleReturned ==
    last_call.op = "from_multiple_folders" /\ outcome.kind = "return"

\* C3: load_data numbers the classes by the position of the folder in the list:
\* the samples of the folder at position i (from 0) have TARGET = i and INPUT =
\* the folder's path joined with the file name, the samples are grouped by folder
\* in the order of the list, and there are as many samples as listed files.
C3_LoadDataEnumeratesFolders ==
    (FromDataReturned /\ last_call.args.running_stage # PREDICTING) =>
        IsEnumerationOf(dataset.data, last_call.args.data)

\* C3 witness: a list of two different folders, two files in the first and one in
\* the second, was loaded.
C3_Witness ==
    /\ FromDataReturned
    /\ last_call.args.running_stage # PREDICTING
    /\ Len(last_call.args.data) = 2
    /\ last_call.args.data[1] # last_call.args.data[2]
    /\ Len(fs[last_call.args.data[1]]) = 2
    /\ Len(fs[last_call.args.data[2]]) = 1
    /\ Len(dataset.data) = 3

\* C4: num_classes is set exactly in the training stage, to the number of
\* folders: a dataset from from_data has the attribute iff its stage is training,
\* and in a data module the train dataset has num_classes = the number of train
\* folders while the validation, test and predict datasets do not have it.
C4_NumClassesOnlyInTraining ==
    /\ FromDataReturned =>
         /\ ("num_classes" \in DOMAIN dataset) <=> (last_call.args.running_stage = TRAINING)
         /\ last_call.args.running_stage = TRAINING =>
                dataset.num_classes = Len(last_call.args.data)
    /\ DataModuleReturned =>
         /\ datamodule.train_dataset # None =>
              /\ "num_classes" \in DOMAIN datamodule.train_dataset
              /\ datamodule.train_dataset.num_classes = Len(last_call.args.train_folders.value)
         /\ \A d \in {datamodule.val_dataset, datamodule.test_dataset,
                      datamodule.predict_dataset} :
              "num_classes" \notin DOMAIN d

\* C4 witness: a data module built from two train folders, validation folders and
\* a predict folder.
C4_Witness ==
    /\ DataModuleReturned
    /\ datamodule.train_dataset # None
    /\ datamodule.val_dataset # None
    /\ datamodule.predict_dataset # None
    /\ datamodule.train_dataset.num_classes = 2

\* The transform a dataset of the stage must hold for the argument t.
IsTransformOf(transform, t, running_stage) ==
    IF t = None THEN transform = None
    ELSE /\ transform # None
         /\ transform.kind = (IF t.key = BASE THEN "ImageBaseTransform"
                              ELSE "ImageRandomRotationTransform")
         /\ transform.running_stage = running_stage
         /\ transform.transform[PER_SAMPLE_TRANSFORM].transform.transforms[1].size[1] =
                (IF "image_size" \in DOMAIN t.kwargs THEN t.kwargs.image_size ELSE 224)

\* d is the dataset of the stage for the folders and the transform given, or
\* None when no folders are given.
IsDatasetOf(d, folders, t, running_stage) ==
    IF folders = None THEN d = None
    ELSE /\ d # None
         /\ d.running_stage = running_stage
         /\ IF running_stage = PREDICTING
            THEN IsPredictListOf(d.data, folders.value)
            ELSE IsEnumerationOf(d.data, folders.value)
         /\ IsTransformOf(d.transform, t, running_stage)

\* C7: from_multiple_folders makes a dataset for exactly the stages whose folders
\* are given (None for the others), each in its own stage, from its own folders
\* and with its own transform.
C7_DatasetPerProvidedStage ==
    DataModuleReturned =>
        LET a == last_call.args
        IN /\ IsDatasetOf(datamodule.train_dataset, a.train_folders, a.train_transform,
                          TRAINING)
           /\ IsDatasetOf(datamodule.val_dataset, a.val_folders, a.val_transform,
                          VALIDATING)
           /\ IsDatasetOf(datamodule.test_dataset, a.test_folders, a.test_transform,
                          TESTING)
           /\ IsDatasetOf(datamodule.predict_dataset, a.predict_folder, a.predict_transform,
                          PREDICTING)

\* C7 witness: the script's call: train, validation and predict folders, a train
\* transform, no test folders; the test dataset is None.
C7_Witness ==
    /\ DataModuleReturned
    /\ last_call.args.train_folders = Given(TRAIN_FOLDERS)
    /\ last_call.args.val_folders = Given(VAL_FOLDERS)
    /\ last_call.args.predict_folder = Given(PREDICT_FOLDER)
    /\ last_call.args.test_folders = None
    /\ last_call.args.train_transform = [key |-> RANDOM_ROTATION, kwargs |-> NoKwargs]
    /\ last_call.args.val_transform = None
    /\ datamodule.test_dataset = None
    /\ datamodule.train_dataset # None
    /\ datamodule.predict_dataset # None
    /\ Len(datamodule.predict_dataset.data) = 2

\* C8: a dataset in the predicting stage is loaded by predict_load_data alone:
\* its samples have an INPUT path and no TARGET, and it has no num_classes.  A
\* dataset in the training, validating or testing stage is loaded by load_data
\* alone: its samples have INPUT and TARGET.
C8_StageHookResolution ==
    FromDataReturned =>
        IF last_call.args.running_stage = PREDICTING
        THEN /\ calls = << <<"predict", "load_data">> >>
             /\ IsPredictListOf(dataset.data, last_call.args.data)
             /\ \A j \in 1..Len(dataset.data) : DOMAIN dataset.data[j] = {INPUT}
             /\ "num_classes" \notin DOMAIN dataset
        ELSE /\ calls = << <<"", "load_data">> >>
             /\ \A j \in 1..Len(dataset.data) : DOMAIN dataset.data[j] = {INPUT, TARGET}

\* C8 witness: a folder of two files was loaded in the predicting stage.
C8_Witness ==
    /\ FromDataReturned
    /\ last_call.args.running_stage = PREDICTING
    /\ Len(dataset.data) = 2

CeilDiv(a, b) == (a + b - 1) \div b

\* The side the network puts out for a side of the input.
OutputSide(side) == 4 * CeilDiv(CeilDiv(side, 2), 2)

ForwardOf3Channels ==
    last_call.op = "Transformer.forward" /\ last_call.input.c = 3

\* C11 as stated: for every input of 3 channels and sides H, W the network puts
\* out 3 channels and sides 4 * ceil(ceil(H/2)/2) and 4 * ceil(ceil(W/2)/2).
C11_EveryInputKeepsShape ==
    ForwardOf3Channels =>
        /\ outcome.kind = "return"
        /\ outcome.value = [kind |-> "shape", c |-> 3,
                            h |-> OutputSide(last_call.input.h),
                            w |-> OutputSide(last_call.input.w)]

\* C11 amended: for an input of 3 channels whose sides H and W are both at least
\* 5, the first Conv (stride 1) keeps the sides, each of the two stride-2 Convs
\* maps a side h to ceil(h/2), every Residual keeps channels and sides, each of
\* the two upsampling Convs doubles the sides and the last Conv keeps them; the
\* output has 3 channels and sides 4 * ceil(ceil(H/2)/2), equal to the input's
\* exactly for a multiple of 4 and larger otherwise.  With a side below 5 the
\* reflection padding of 4 of the first Conv is rejected and the pass raises.
C11_ShapeForSidesFromFive ==
    ForwardOf3Channels =>
        LET H == last_call.input.h
            W == last_call.input.w
            S(c, h, w) == [kind |-> "shape", c |-> c, h |-> h, w |-> w]
        IN IF H >= 5 /\ W >= 5
           THEN /\ Len(calls) = 11
                /\ calls[1] = S(32, H, W)
                /\ calls[2] = S(64, CeilDiv(H, 2), CeilDiv(W, 2))
                /\ calls[3] = S(128, CeilDiv(CeilDiv(H, 2), 2), CeilDiv(CeilDiv(W, 2), 2))
                /\ \A i \in 4..8 : calls[i] = calls[3]
                /\ calls[9] = S(64, 2 * calls[8].h, 2 * calls[8].w)
                /\ calls[10] = S(32, 2 * calls[9].h, 2 * calls[9].w)
                /\ calls[11] = S(3, calls[10].h, calls[10].w)
                /\ outcome = [kind |-> "return",
                              value |-> S(3, OutputSide(H), OutputSide(W))]
                /\ (outcome.value.h = H) <=> (H % 4 = 0)
                /\ (outcome.value.w = W) <=> (W % 4 = 0)
                /\ outcome.value.h >= H
                /\ outcome.value.w >= W
           ELSE /\ outcome.kind = "raise"
                /\ Len(calls) = 1

\* C11 witness: an input of 3 channels with one side a multiple of 4 and one not
\* has passed through the network.
C11_Witness ==
    /\ ForwardOf3Channels
    /\ last_call.input.h = 8
    /\ last_call.input.w = 9
    /\ outcome.kind = "return"
    /\ outcome.value.h = 8
    /\ outcome.value.w = 12

====
